---- MODULE Spec2Model ----
(***************************************************************************)
(* Model of the transcription agent (agents/transcription_agent.py).       *)
(*                                                                         *)
(* The agent runs on one asyncio event loop.  A step of the model is what  *)
(* one task (or one synchronous room callback) does between two            *)
(* suspension points (await), so everything the code does without an       *)
(* await in between is one atomic action.                                  *)
(***************************************************************************)
EXTENDS Naturals, Integers, Sequences, FiniteSets, TLC

\* ------------------------------------------------------------------ bounds
MaxSessions == 3   \* invocations of process_audio_track in one run
MaxEnv      == 4   \* things the environment does in one run: room
                   \* notifications, speech events, audio frames, ends and
                   \* failures of streams, failed publishes, timer ticks
MaxFiles    == 2   \* migration files in supabase/migrations
MaxStmts    == 2   \* statements in one migration file

\* ------------------------------------------------------- the room's universe
Participants == {"PA_1", "PA_2"}
Tracks       == {"TR_a", "TR_v", "TR_b"}

Owner(tr) == IF tr = "TR_b" THEN "PA_2" ELSE "PA_1"
Kind(tr)  == IF tr = "TR_v" THEN "KIND_VIDEO" ELSE "KIND_AUDIO"
Identity(p) == IF p = "PA_1" THEN "alice" ELSE "bob"

\* participant.track_publications, in insertion order
PubsOf(p) == IF p = "PA_1" THEN <<"TR_a", "TR_v">> ELSE <<"TR_b">>

\* ------------------------------------------------------------ pure helpers
track_id(p, tr) == p \o "_" \o tr

\* str.isspace() of one character, the test str.strip() applies: the characters
\* U+0009..U+000D, U+001C..U+001F, U+0020, U+0085, U+00A0 and U+1680.  (The
\* other characters Python holds for whitespace, U+2000..U+200A, U+2028,
\* U+2029, U+202F, U+205F and U+3000, cannot occur in a string of this module
\* and so in no text of the model.)
IsSpace(c) ==
    c \in { " ", "\t", "\n", "\r", "\f",
            "", "", "", "", "", "", " ", " " }

RECURSIVE lstrip(_)
lstrip(t) == IF t # <<>> /\ IsSpace(Head(t)) THEN lstrip(Tail(t)) ELSE t

RECURSIVE rstrip(_)
rstrip(t) ==
    IF t # <<>> /\ IsSpace(t[Len(t)]) THEN rstrip(SubSeq(t, 1, Len(t) - 1)) ELSE t

\* the tests of lines 129, 141, 177 and 202 on the text itself ("if text:")
strip_none(t) == t

\* str.strip(): the text without leading and trailing whitespace
strip(t) == rstrip(lstrip(t))

Texts == { <<" ">>, <<"a", " ">> }

Alternatives == { <<>> } \cup { <<[text |-> t]>> : t \in Texts }

EventSet ==
    [type : {"INTERIM_TRANSCRIPT", "FINAL_TRANSCRIPT"}, alternatives : Alternatives]
    \cup { [type |-> "END_OF_SPEECH", alternatives |-> <<>>] }


Last(q) == q[Len(q)]

\* lines 127-129 and 139-141: the event carries an alternative with visible text
HasText(e) ==
    /\ e.alternatives # <<>> /\ Len(e.alternatives) > 0
    /\ strip(e.alternatives[1].text) # <<>>

\* the branch of process_stt_events that awaits send_transcription
CallsSend(e) ==
    /\ e.type \in {"INTERIM_TRANSCRIPT", "FINAL_TRANSCRIPT"}
    /\ HasText(e)

\* send_transcription up to its await: the message it publishes, or <<>> on
\* the early return for blank text
send_transcription(text, is_final, participant) ==
    IF strip(text) = <<>> THEN <<>>
    ELSE << [kind |-> "msg", text |-> text, isFinal |-> is_final,
             participant |-> participant] >>

RoomName == "room"

\* The transcript file of (room, today):
\*   absent   no such file
\*   list     a JSON array, recs are its elements
\*   corrupt  content json.load rejects with JSONDecodeError
\*   other    valid JSON that is not an array (an object, a number, ...)
FileKinds == {"absent", "list", "corrupt", "other"}

\* a record an earlier run of the agent saved today
EarlierRecord == [participant |-> "carol", text |-> <<"z">>, room |-> RoomName]

InitialFiles ==
    { [kind |-> "absent", recs |-> <<>>],
      [kind |-> "corrupt", recs |-> <<>>],
      [kind |-> "other", recs |-> <<>>],
      [kind |-> "list", recs |-> <<EarlierRecord>>] }

\* save_transcript writing the new entry alone instead of the list it read
save_transcript_entry_only(f, text, participant) ==
    IF strip(text) = <<>> THEN [file |-> f, raised |-> FALSE]
    ELSE IF f.kind = "other" THEN [file |-> f, raised |-> TRUE]
    ELSE [file |-> [kind |-> "list",
                    recs |-> <<[participant |-> participant, text |-> text,
                                room |-> RoomName]>>],
          raised |-> FALSE]

\* save_transcript putting the new entry in front of the list it read
save_transcript_prepend(f, text, participant) ==
    IF strip(text) = <<>> THEN [file |-> f, raised |-> FALSE]
    ELSE LET entry == [participant |-> participant, text |-> text, room |-> RoomName]
             transcripts == IF f.kind = "list" THEN f.recs ELSE <<>>
         IN  IF f.kind = "other"
             THEN [file |-> f, raised |-> TRUE]
             ELSE [file |-> [kind |-> "list", recs |-> <<entry>> \o transcripts],
                   raised |-> FALSE]

\* save_transcript: the file afterwards, and whether the call raised
save_transcript(f, text, participant) ==
    IF strip(text) = <<>> THEN [file |-> f, raised |-> FALSE]
    ELSE LET entry == [participant |-> participant, text |-> text, room |-> RoomName]
             transcripts == IF f.kind = "list" THEN f.recs ELSE <<>>
         IN  IF f.kind = "other"
             THEN [file |-> f, raised |-> TRUE]     \* no append on a non-list
             ELSE [file |-> [kind |-> "list", recs |-> Append(transcripts, entry)],
                   raised |-> FALSE]

\* ------------------------------------------- consolidate-migrations.py
\* A migration file is a sequence of SQL statements.  A CREATE TABLE
\* statement names its table, with or without the public. prefix; any other
\* statement (here a CREATE INDEX) is no match of the pattern of line 33.
TableNames == {"users", "apps", "Zeta"}

Columns == {"c1", "c2"}

Statements ==
    [kind : {"create_table"}, qualified : BOOLEAN, name : TableNames, cols : Columns]
    \cup { [kind |-> "create_index", qualified |-> FALSE, name |-> "apps", cols |-> "c1"] }

Contents == UNION { [1..k -> Statements] : k \in 0..MaxStmts }

\* the files of main(), line 289, in the order of their names
MigrationDirs == UNION { [1..k -> Contents] : k \in 0..MaxFiles }

EmptyTables == [n \in {} |-> n]

\* dict.update
dict_update(t, u) ==
    [n \in (DOMAIN t) \cup (DOMAIN u) |-> IF n \in DOMAIN u THEN u[n] ELSE t[n]]

\* lines 29-40: group(1) is the name without the prefix, group(0) the whole
\* statement; a later statement of the same name replaces the earlier one
RECURSIVE extract_table_definition(_)
extract_table_definition(content) ==
    IF content = <<>> THEN EmptyTables
    ELSE LET before == extract_table_definition(SubSeq(content, 1, Len(content) - 1))
             match == content[Len(content)]
         IN  IF match.kind = "create_table"
             THEN dict_update(before, [n \in {match.name} |-> match])
             ELSE before

\* the code points of a name: Python compares str by them
CodePoints(name) ==
    CASE name = "users" -> <<117, 115, 101, 114, 115>>
      [] name = "apps"  -> <<97, 112, 112, 115>>
      [] name = "Zeta"  -> <<90, 101, 116, 97>>

RECURSIVE LexLess(_, _)
LexLess(a, b) ==
    IF a = <<>> THEN b # <<>>
    ELSE IF b = <<>> THEN FALSE
    ELSE IF a[1] # b[1] THEN a[1] < b[1]
    ELSE LexLess(Tail(a), Tail(b))

\* sorted() of a set of names
RECURSIVE sorted(_)
sorted(names) ==
    IF names = {} THEN <<>>
    ELSE LET x == CHOOSE y \in names :
                    \A z \in names \ {y} : LexLess(CodePoints(y), CodePoints(z))
         IN  <<x>> \o sorted(names \ {x})

\* generate_consolidated_schema, lines 177-190: the entries of the TABLES
\* section in the order they are written, and the dict tables afterwards
generate_consolidated_schema(tables) ==
    LET order == sorted(DOMAIN tables)
        sorted_tables == [i \in 1..Len(order) |->
                            [name |-> order[i], def |-> tables[order[i]]]]
    IN  IF "users" \in DOMAIN tables
        THEN [section |-> <<[name |-> "users", def |-> tables["users"]]>> \o sorted_tables,
              tables |-> [n \in (DOMAIN tables) \ {"users"} |-> tables[n]]]
        ELSE [section |-> sorted_tables, tables |-> tables]

MigOff == [pc |-> "off", todo |-> <<>>, tables |-> EmptyTables, section |-> <<>>]

\* ------------------------------------------------------------------- state
VARIABLES
    processing_tracks,  \* self.processing_tracks
    participants,       \* room.remote_participants, in insertion order
    subscribed,         \* tracks whose publication.track is set
    main,               \* the entrypoint task
    joins,              \* the process_participant_tracks task of each joiner
    sess,               \* the invocations of process_audio_track
    hb,                 \* the send_status_updates task
    file,               \* the transcript file of (room, today)
    env,                \* how many things the environment has done
    mig                 \* the run of consolidate-migrations.py

vars == <<processing_tracks, participants, subscribed, main, joins, sess, hb, file,
          env, mig>>

\* the environment does one more thing
EnvStep == env < MaxEnv /\ env' = env + 1

Sessions == 1..MaxSessions

BlankSession ==
    [st     |-> "free",   \* free, pending, running, stopped, returned
     track  |-> "none",
     host   |-> "none",   \* the task that awaits it: task (its own), main, or a joiner
     ev     |-> "idle",   \* process_stt_events: idle, waiting, sending, done, raised
     push   |-> "idle",   \* push_audio_frames: idle, waiting, done, raised
     evlog  |-> <<>>,     \* events received from the stt stream
     out    |-> <<>>,     \* messages published and records saved, in order
     frames |-> 0,        \* frames pushed to the stt stream
     endIn  |-> 0,        \* calls of stt_stream.end_input()
     exc    |-> "none"]   \* the exception gather raised into the session

SessId(S, s) == track_id(Owner(S[s].track), S[s].track)

FreeSlot(S) ==
    IF \E s \in Sessions : S[s].st = "free"
    THEN CHOOSE s \in Sessions : S[s].st = "free" /\ \A u \in Sessions : u < s => S[u].st # "free"
    ELSE 0

\* process_audio_track without the test of line 107
process_audio_track_untested(S, reg, s, tr, host) ==
    [sess |-> [S EXCEPT ![s] = [BlankSession EXCEPT !.st = "running",
                                   !.track = tr, !.host = host,
                                   !.ev = "waiting", !.push = "waiting"]],
     reg |-> reg \cup {track_id(Owner(tr), tr)}, started |-> TRUE]

\* process_audio_track up to its first await, run in slot s: lines 104-121
process_audio_track(S, reg, s, tr, host) ==
    LET id == track_id(Owner(tr), tr) IN
    IF id \in reg
    THEN [sess |-> [S EXCEPT ![s] = [BlankSession EXCEPT !.st = "returned",
                                        !.track = tr, !.host = host]],
          reg |-> reg, started |-> FALSE]
    ELSE [sess |-> [S EXCEPT ![s] = [BlankSession EXCEPT !.st = "running",
                                        !.track = tr, !.host = host,
                                        !.ev = "waiting", !.push = "waiting"]],
          reg |-> reg \cup {id}, started |-> TRUE]

\* process_participant_tracks from the publications still to visit, until it
\* suspends in a session (cur) or the loop ends (cur = 0)
RECURSIVE process_participant_tracks(_, _, _, _)
process_participant_tracks(pubs, S, reg, host) ==
    IF pubs = <<>> THEN [ok |-> TRUE, pubs |-> <<>>, sess |-> S, reg |-> reg, cur |-> 0]
    ELSE LET tr == Head(pubs) IN
         IF tr \in subscribed /\ Kind(tr) = "KIND_AUDIO"
         THEN LET s == FreeSlot(S) IN
              IF s = 0
              THEN [ok |-> FALSE, pubs |-> pubs, sess |-> S, reg |-> reg, cur |-> 0]
              ELSE LET r == process_audio_track(S, reg, s, tr, host) IN
                   IF r.started
                   THEN [ok |-> TRUE, pubs |-> Tail(pubs), sess |-> r.sess,
                         reg |-> r.reg, cur |-> s]
                   ELSE process_participant_tracks(Tail(pubs), r.sess, r.reg, host)
         ELSE process_participant_tracks(Tail(pubs), S, reg, host)

\* entrypoint's loop over room.remote_participants (lines 40-41) from the
\* publications pubs of the current participant and the participants parts
\* still to visit, then lines 44-94.  The dict must not have changed size
\* while the loop was suspended (RuntimeError).
RECURSIVE scan(_, _, _, _, _)
scan(parts, pubs, S, reg, used) ==
    LET r == process_participant_tracks(pubs, S, reg, "main") IN
    IF ~r.ok THEN [ok |-> FALSE, pc |-> "scan", parts |-> parts, pubs |-> pubs,
                   sess |-> S, reg |-> reg]
    ELSE IF r.cur # 0
    THEN [ok |-> TRUE, pc |-> "scan", parts |-> parts, pubs |-> r.pubs,
          sess |-> r.sess, reg |-> r.reg]
    ELSE IF Len(participants) # used
    THEN [ok |-> TRUE, pc |-> "crashed", parts |-> <<>>, pubs |-> <<>>,
          sess |-> r.sess, reg |-> r.reg]
    ELSE IF parts = <<>>
    THEN [ok |-> TRUE, pc |-> "wait", parts |-> <<>>, pubs |-> <<>>,
          sess |-> r.sess, reg |-> r.reg]
    ELSE scan(Tail(parts), PubsOf(Head(parts)), r.sess, r.reg, used)

Registered == main.pc = "wait"   \* the room callbacks of lines 44-72 are set

HbOff == [pc |-> "off", n |-> 0, ticks |-> 0, sent |-> <<>>]

\* ---------------------------------------------------------------- initial
SeqOfSet(q) == { q[i] : i \in 1..Len(q) }

\* the room the agent connects to: who is there, which tracks are subscribed
InitialRooms ==
    { [participants |-> <<"PA_1", "PA_2">>, subscribed |-> {}],
      [participants |-> <<"PA_1", "PA_2">>, subscribed |-> Tracks],
      [participants |-> <<"PA_1">>, subscribed |-> {"TR_a", "TR_v"}] }

Init ==
    /\ processing_tracks = {}
    /\ \E r \in InitialRooms :
          /\ participants = r.participants
          /\ subscribed = r.subscribed
    /\ main = [pc |-> "connect", parts |-> <<>>, pubs |-> <<>>, used |-> 0]
    /\ joins = [p \in Participants |-> [pc |-> "free", pubs |-> <<>>]]
    /\ sess = [s \in Sessions |-> BlankSession]
    /\ hb = HbOff
    /\ env = 0
    /\ file \in InitialFiles
    /\ mig = MigOff

\* ------------------------------------------------------------- entrypoint
\* lines 33-94 up to the first suspension: connect, scan the room, and, when
\* the scan gets through, set the callbacks and start the status task
HbStart(pc) == IF pc = "wait" /\ hb.pc = "off" THEN [hb EXCEPT !.pc = "sleeping"] ELSE hb

Connect ==
    /\ main.pc = "connect"
    /\ LET r == scan(participants, <<>>, sess, processing_tracks, Len(participants)) IN
       /\ r.ok
       /\ main' = [pc |-> r.pc, parts |-> r.parts, pubs |-> r.pubs,
                   used |-> Len(participants)]
       /\ sess' = r.sess
       /\ processing_tracks' = r.reg
       /\ hb' = HbStart(r.pc)
    /\ UNCHANGED <<mig, participants, subscribed, joins, file>>
    /\ UNCHANGED env

\* --------------------------------------------------------- room callbacks
\* a participant joins; on_participant_connected (lines 44-47) if it is set
ParticipantConnected(p) ==
    /\ EnvStep
    /\ p \notin SeqOfSet(participants)
    /\ participants' = Append(participants, p)
    /\ joins' = IF Registered
                THEN [joins EXCEPT ![p] = [pc |-> "pending", pubs |-> PubsOf(p)]]
                ELSE joins
    /\ UNCHANGED <<mig, processing_tracks, subscribed, main, sess, hb, file>>

\* on_track_subscribed without the test of the track kind
TrackSubscribed_any_kind(tr) ==
    /\ EnvStep
    /\ Owner(tr) \in SeqOfSet(participants)
    /\ tr \notin subscribed
    /\ subscribed' = subscribed \cup {tr}
    /\ IF Registered
       THEN /\ FreeSlot(sess) # 0
            /\ sess' = [sess EXCEPT ![FreeSlot(sess)] =
                           [BlankSession EXCEPT !.st = "pending", !.track = tr,
                                                !.host = "task"]]
       ELSE sess' = sess
    /\ UNCHANGED <<mig, processing_tracks, participants, main, joins, hb, file>>

\* a track gets subscribed; on_track_subscribed (lines 50-54) if it is set
TrackSubscribed(tr) ==
    /\ EnvStep
    /\ Owner(tr) \in SeqOfSet(participants)
    /\ tr \notin subscribed
    /\ subscribed' = subscribed \cup {tr}
    /\ IF Registered /\ Kind(tr) = "KIND_AUDIO"
       THEN /\ FreeSlot(sess) # 0
            /\ sess' = [sess EXCEPT ![FreeSlot(sess)] =
                           [BlankSession EXCEPT !.st = "pending", !.track = tr,
                                                !.host = "task"]]
       ELSE sess' = sess
    /\ UNCHANGED <<mig, processing_tracks, participants, main, joins, hb, file>>

\* on_track_unsubscribed discarding the track sid instead of the track id
on_track_unsubscribed_by_sid(reg, tr) ==
    IF Kind(tr) = "KIND_AUDIO" THEN reg \ {tr} ELSE reg

\* on_track_unsubscribed emptying the registry (processing_tracks.clear())
on_track_unsubscribed_clear(reg, tr) ==
    IF Kind(tr) = "KIND_AUDIO" THEN {} ELSE reg

\* on_track_unsubscribed, lines 57-62
on_track_unsubscribed(reg, tr) ==
    IF Kind(tr) = "KIND_AUDIO" THEN reg \ {track_id(Owner(tr), tr)} ELSE reg

\* on_track_unsubscribed stopping the sessions of the track as well
TrackUnsubscribed_cancel(tr) ==
    /\ EnvStep
    /\ tr \in subscribed
    /\ subscribed' = subscribed \ {tr}
    /\ processing_tracks' = IF Registered
                            THEN on_track_unsubscribed(processing_tracks, tr)
                            ELSE processing_tracks
    /\ sess' = [s \in Sessions |->
                  IF Registered /\ sess[s].st = "running" /\ sess[s].track = tr
                  THEN [sess[s] EXCEPT !.st = "stopped", !.ev = "done", !.push = "done"]
                  ELSE sess[s]]
    /\ UNCHANGED <<mig, participants, main, joins, hb, file>>

TrackUnsubscribed(tr) ==
    /\ EnvStep
    /\ tr \in subscribed
    /\ subscribed' = subscribed \ {tr}
    /\ processing_tracks' = IF Registered
                            THEN on_track_unsubscribed(processing_tracks, tr)
                            ELSE processing_tracks
    /\ UNCHANGED <<mig, participants, main, joins, sess, hb, file>>

\* ------------------------------------------------------------ task starts
\* the task of line 54 runs process_audio_track up to its first await
StartTrackTask(s) ==
    /\ sess[s].st = "pending"
    /\ LET r == process_audio_track(sess, processing_tracks, s, sess[s].track, "task") IN
       /\ sess' = r.sess
       /\ processing_tracks' = r.reg
    /\ UNCHANGED <<mig, participants, subscribed, main, joins, hb, file>>
    /\ UNCHANGED env

\* a process_participant_tracks task (line 47) runs on from its publications
resume_join(p, S, reg) ==
    LET r == process_participant_tracks(joins[p].pubs, S, reg, p) IN
    [ok |-> r.ok, sess |-> r.sess, reg |-> r.reg,
     joins |-> [joins EXCEPT ![p] = [pc |-> IF r.cur = 0 THEN "done" ELSE "waiting",
                                     pubs |-> r.pubs]]]

StartJoinTask(p) ==
    /\ joins[p].pc = "pending"
    /\ LET r == resume_join(p, sess, processing_tracks) IN
       /\ r.ok
       /\ sess' = r.sess
       /\ processing_tracks' = r.reg
       /\ joins' = r.joins
    /\ UNCHANGED <<mig, participants, subscribed, main, hb, file>>
    /\ UNCHANGED env

\* ------------------------------------------------------- a session's flows
\* a flow of the gather of lines 164-167 raises: gather hands the first
\* exception to the awaiting session and leaves the other flow running
raised(sr, cause) ==
    IF sr.st = "running" /\ sr.exc = "none" THEN cause ELSE sr.exc

EventText(e) == e.alternatives[1].text

\* after_send with the message put before what was sent so far
after_send_prepend(sr, f, e, msgs) ==
    LET who == Identity(Owner(sr.track))
        sent == [sr EXCEPT !.out = msgs \o @]
    IN  IF e.type = "FINAL_TRANSCRIPT"
        THEN LET r == save_transcript(f, EventText(e), who) IN
             IF r.raised
             THEN [sr |-> [sent EXCEPT !.ev = "raised", !.exc = raised(sr, "save")],
                   file |-> r.file]
             ELSE [sr |-> [sent EXCEPT !.ev = "waiting",
                              !.out = IF r.file = f THEN @
                                      ELSE Append(@, [kind |-> "rec",
                                                      text |-> EventText(e),
                                                      participant |-> who])],
                   file |-> r.file]
        ELSE [sr |-> [sent EXCEPT !.ev = "waiting"], file |-> f]

\* after_send saving whatever was sent, without the test of the event type
after_send_saves_all(sr, f, e, msgs) ==
    LET who == Identity(Owner(sr.track))
        sent == [sr EXCEPT !.out = @ \o msgs]
        r == save_transcript(f, EventText(e), who)
    IN  IF r.raised
        THEN [sr |-> [sent EXCEPT !.ev = "raised", !.exc = raised(sr, "save")],
              file |-> r.file]
        ELSE [sr |-> [sent EXCEPT !.ev = "waiting",
                         !.out = IF r.file = f THEN @
                                 ELSE Append(@, [kind |-> "rec",
                                                 text |-> EventText(e),
                                                 participant |-> who])],
              file |-> r.file]

\* process_stt_events after send_transcription returned (msgs is what it
\* published): line 149 for a final transcript, then back to the async for
after_send(sr, f, e, msgs) ==
    LET who == Identity(Owner(sr.track))
        sent == [sr EXCEPT !.out = @ \o msgs]
    IN  IF e.type = "FINAL_TRANSCRIPT"
        THEN LET r == save_transcript(f, EventText(e), who) IN
             IF r.raised
             THEN [sr |-> [sent EXCEPT !.ev = "raised", !.exc = raised(sr, "save")],
                   file |-> r.file]
             ELSE [sr |-> [sent EXCEPT !.ev = "waiting",
                              !.out = IF r.file = f THEN @
                                      ELSE Append(@, [kind |-> "rec",
                                                      text |-> EventText(e),
                                                      participant |-> who])],
                   file |-> r.file]
        ELSE [sr |-> [sent EXCEPT !.ev = "waiting"], file |-> f]

\* the stt stream yields event e: lines 124-152 up to the next await
on_event(sr, f, e) ==
    LET got == [sr EXCEPT !.evlog = Append(@, e)] IN
    IF CallsSend(e)
    THEN IF send_transcription(EventText(e), e.type = "FINAL_TRANSCRIPT",
                               Identity(Owner(sr.track))) # <<>>
         THEN [sr |-> [got EXCEPT !.ev = "sending"], file |-> f]  \* await publish_data
         ELSE after_send(got, f, e, <<>>)
    ELSE [sr |-> got, file |-> f]

EngineEvent(s, e) ==
    /\ EnvStep
    /\ sess[s].ev = "waiting"
    /\ LET r == on_event(sess[s], file, e) IN
       /\ sess' = [sess EXCEPT ![s] = r.sr]
       /\ file' = r.file
    /\ UNCHANGED <<mig, processing_tracks, participants, subscribed, main, joins, hb>>

\* publish_data of line 190 completes (ok) or raises
on_published(sr, f, ok) ==
    LET e == Last(sr.evlog) IN
    IF ok
    THEN after_send(sr, f, e,
                    send_transcription(EventText(e), e.type = "FINAL_TRANSCRIPT",
                                       Identity(Owner(sr.track))))
    ELSE [sr |-> [sr EXCEPT !.ev = "raised", !.exc = raised(sr, "send")], file |-> f]

PublishDone(s, ok) ==
    /\ sess[s].ev = "sending"
    /\ LET r == on_published(sess[s], file, ok) IN
       /\ sess' = [sess EXCEPT ![s] = r.sr]
       /\ file' = r.file
    /\ UNCHANGED <<mig, processing_tracks, participants, subscribed, main, joins, hb>>
    /\ IF ok THEN UNCHANGED env ELSE EnvStep

\* the stt stream ends: the async for of line 124 is over
EngineEnd(s) ==
    /\ EnvStep
    /\ sess[s].ev = "waiting"
    /\ sess' = [sess EXCEPT ![s].ev = "done"]
    /\ UNCHANGED <<mig, processing_tracks, participants, subscribed, main, joins, hb, file>>

\* the stt stream raises
EngineRaise(s) ==
    /\ EnvStep
    /\ sess[s].ev = "waiting"
    /\ sess' = [sess EXCEPT ![s].ev = "raised", ![s].exc = raised(sess[s], "engine")]
    /\ UNCHANGED <<mig, processing_tracks, participants, subscribed, main, joins, hb, file>>

\* push_audio_frames, lines 156-158: one frame of the track
AudioFrame(s) ==
    /\ EnvStep
    /\ sess[s].push = "waiting"
    /\ sess' = [sess EXCEPT ![s].frames = @ + 1]
    /\ UNCHANGED <<mig, processing_tracks, participants, subscribed, main, joins, hb, file>>

\* end_input called inside the loop, after each frame
AudioEnd_in_loop(s) ==
    /\ EnvStep
    /\ sess[s].push = "waiting"
    /\ sess' = [sess EXCEPT ![s].frames = @ + 1, ![s].endIn = @ + 1]
    /\ UNCHANGED <<mig, processing_tracks, participants, subscribed, main, joins, hb, file>>

\* the audio stream is exhausted: line 161
AudioEnd(s) ==
    /\ EnvStep
    /\ sess[s].push = "waiting"
    /\ sess' = [sess EXCEPT ![s].push = "done", ![s].endIn = @ + 1]
    /\ UNCHANGED <<mig, processing_tracks, participants, subscribed, main, joins, hb, file>>

\* the audio stream raises
AudioRaise(s) ==
    /\ EnvStep
    /\ sess[s].push = "waiting"
    /\ sess' = [sess EXCEPT ![s].push = "raised", ![s].exc = raised(sess[s], "audio")]
    /\ UNCHANGED <<mig, processing_tracks, participants, subscribed, main, joins, hb, file>>

\* ---------------------------------------------------------------- teardown
\* the await of line 164 returns: both flows are over, or one has raised
GatherReturns(sr) ==
    \/ sr.exc # "none"
    \/ sr.ev = "done" /\ sr.push = "done"

\* the finally using set.remove: removing an absent id raises KeyError, shown
\* as a mark left in the registry
release_on_exit_remove(reg, sr) ==
    IF track_id(Owner(sr.track), sr.track) \in reg
    THEN reg \ {track_id(Owner(sr.track), sr.track)}
    ELSE reg \cup {"KeyError"}

\* the except branch resetting the whole registry (processing_tracks.clear())
release_on_exit_clear(reg, sr) ==
    IF sr.exc # "none" THEN {} ELSE reg \ {track_id(Owner(sr.track), sr.track)}

\* the discard of line 172 at the end of the try block instead of in a finally
release_on_exit_in_try(reg, sr) ==
    IF sr.exc = "none" THEN reg \ {track_id(Owner(sr.track), sr.track)} ELSE reg

\* lines 169-173: the registry after the except and the finally of session sr
release_on_exit(reg, sr) == reg \ {track_id(Owner(sr.track), sr.track)}

\* The session ends, and the task that awaited it runs on to its next await.
Teardown(s) ==
    /\ sess[s].st = "running"
    /\ GatherReturns(sess[s])
    /\ LET reg1 == release_on_exit(processing_tracks, sess[s])
           S1   == [sess EXCEPT ![s].st = "stopped"]
           h    == sess[s].host
       IN  IF h = "task"
           THEN /\ sess' = S1
                /\ processing_tracks' = reg1
                /\ UNCHANGED <<main, joins, hb>>
           ELSE IF h = "main"
           THEN LET r == scan(main.parts, main.pubs, S1, reg1, main.used) IN
                /\ r.ok
                /\ sess' = r.sess
                /\ processing_tracks' = r.reg
                /\ main' = [main EXCEPT !.pc = r.pc, !.parts = r.parts, !.pubs = r.pubs]
                /\ hb' = HbStart(r.pc)
                /\ UNCHANGED joins
           ELSE LET r == resume_join(h, S1, reg1) IN
                /\ r.ok
                /\ sess' = r.sess
                /\ processing_tracks' = r.reg
                /\ joins' = r.joins
                /\ UNCHANGED <<main, hb>>
    /\ UNCHANGED <<mig, participants, subscribed, file, env>>

\* --------------------------------------------------------------- heartbeat
\* send_status_updates, lines 77-85: the sleep is over, the message is built
HbTick ==
    /\ EnvStep
    /\ hb.pc = "sleeping"
    /\ hb' = [hb EXCEPT !.pc = "publishing", !.n = Cardinality(processing_tracks),
                        !.ticks = @ + 1]
    /\ UNCHANGED <<mig, processing_tracks, participants, subscribed, main, joins, sess, file>>

\* publish_data of line 85 completes (ok) or raises
hb_published(h, ok) ==
    IF ok THEN [h EXCEPT !.pc = "sleeping", !.sent = Append(@, h.n)]
    ELSE [h EXCEPT !.pc = "dead"]

HbPublishDone(ok) ==
    /\ hb.pc = "publishing"
    /\ hb' = hb_published(hb, ok)
    /\ UNCHANGED <<mig, processing_tracks, participants, subscribed, main, joins, sess, file>>
    /\ IF ok THEN UNCHANGED env ELSE EnvStep

\* ------------------------------------------------------------ specification
Next ==
    \/ Connect
    \/ \E p \in Participants : ParticipantConnected(p)
    \/ \E tr \in Tracks : TrackSubscribed(tr)
    \/ \E tr \in Tracks : TrackUnsubscribed(tr)
    \/ \E s \in Sessions : StartTrackTask(s)
    \/ \E p \in Participants : StartJoinTask(p)
    \/ \E s \in Sessions, e \in EventSet : EngineEvent(s, e)
    \/ \E s \in Sessions, ok \in BOOLEAN : PublishDone(s, ok)
    \/ \E s \in Sessions : EngineEnd(s)
    \/ \E s \in Sessions : EngineRaise(s)
    \/ \E s \in Sessions : AudioFrame(s)
    \/ \E s \in Sessions : AudioEnd(s)
    \/ \E s \in Sessions : AudioRaise(s)
    \/ \E s \in Sessions : Teardown(s)
    \/ HbTick
    \/ \E ok \in BOOLEAN : HbPublishDone(ok)

Spec == Init /\ [][Next]_vars

\* The event loop runs every task that is ready: a task that was created, and
\* a session whose gather has returned.  Nothing is assumed of the room, the
\* tracks, the speech engine or the timer.
FairSpec ==
    /\ Spec
    /\ WF_vars(Connect)
    /\ \A s \in Sessions : WF_vars(StartTrackTask(s))
    /\ \A p \in Participants : WF_vars(StartJoinTask(p))
    /\ \A s \in Sessions : WF_vars(Teardown(s))

\* ... and the sleep of line 77 ends: the timer of the event loop fires
FairTimerSpec == FairSpec /\ WF_vars(HbTick)
\* ------------------------------------------- consolidate-migrations.py run
\* main(), lines 278-307: the files are parsed one after the other, then the
\* schema is generated
MigInit ==
    /\ processing_tracks = {}
    /\ participants = <<>>
    /\ subscribed = {}
    /\ main = [pc |-> "connect", parts |-> <<>>, pubs |-> <<>>, used |-> 0]
    /\ joins = [p \in Participants |-> [pc |-> "free", pubs |-> <<>>]]
    /\ sess = [s \in Sessions |-> BlankSession]
    /\ hb = HbOff
    /\ env = 0
    /\ file = [kind |-> "absent", recs |-> <<>>]
    /\ \E dir \in MigrationDirs :
          mig = [pc |-> "parse", todo |-> dir, tables |-> EmptyTables, section |-> <<>>]

\* parse_migration_file, lines 121-130
ParseMigrationFile ==
    /\ mig.pc = "parse" /\ mig.todo # <<>>
    /\ mig' = [mig EXCEPT !.todo = Tail(@),
                          !.tables = dict_update(@, extract_table_definition(Head(mig.todo)))]
    /\ UNCHANGED <<processing_tracks, participants, subscribed, main, joins, sess,
                   hb, file, env>>

GenerateConsolidatedSchema ==
    /\ mig.pc = "parse" /\ mig.todo = <<>>
    /\ LET r == generate_consolidated_schema(mig.tables) IN
       mig' = [mig EXCEPT !.pc = "generated", !.tables = r.tables, !.section = r.section]
    /\ UNCHANGED <<processing_tracks, participants, subscribed, main, joins, sess,
                   hb, file, env>>

MigNext == ParseMigrationFile \/ GenerateConsolidatedSchema

MigSpec == MigInit /\ [][MigNext]_vars

\* ================================================================== claims
Running(s) == sess[s].st = "running"
Acquired(s) == sess[s].st \in {"running", "stopped"}
Held(s) == SessId(sess, s) \in processing_tracks
FlowsLive(s) == sess[s].ev \in {"waiting", "sending"} \/ sess[s].push = "waiting"

\* C1: at most one Track Session is running for any track id.
C1_AtMostOneSessionPerTrack ==
    \A s, u \in Sessions :
        (s # u /\ Running(s) /\ Running(u)) => sess[s].track # sess[u].track

\* C2: the acquire step is atomic.  In every step, an invocation of
\* process_audio_track that leaves its start either finds the id held and
\* returns, the id staying held and no session starting, or finds it not held
\* (or just released by the session this task awaited), adds it and starts;
\* no two invocations for the same id start in one step, and the step of a
\* task of its own that returns changes nothing in the registry.
Attempts(s) ==
    /\ sess[s].st \in {"free", "pending"}
    /\ sess'[s].st \in {"running", "returned"}

C2_AcquireAtomic ==
    [][\A s \in Sessions : Attempts(s) =>
          LET id == SessId(sess', s)
              ended == { SessId(sess, u) : u \in { v \in Sessions :
                            sess[v].st = "running" /\ sess'[v].st = "stopped" } }
          IN  /\ id \in processing_tracks'
              /\ sess'[s].st = "returned" =>
                    /\ id \in processing_tracks
                    /\ sess'[s].ev = "idle" /\ sess'[s].push = "idle"
                    /\ sess[s].st = "pending" => processing_tracks' = processing_tracks
              /\ sess'[s].st = "running" =>
                    /\ id \notin processing_tracks \/ id \in ended
                    /\ \A u \in Sessions \ {s} :
                          (Attempts(u) /\ sess'[u].st = "running")
                              => SessId(sess', u) # id
      ]_vars

\* two tasks were pending for the same id at once; the one created last ran
\* first and won, the other found the id held and returned
C2_Witness ==
    \E s, u \in Sessions :
        /\ s < u
        /\ sess[s].host = "task" /\ sess[u].host = "task"
        /\ sess[s].track = sess[u].track
        /\ sess[s].st = "returned" /\ sess[u].st = "running"
        /\ \A v \in Sessions \ {s, u} : sess[v].track # sess[s].track
        /\ Held(u)

\* C3: when a session that acquired its id ends, normally or by a failure
\* of either flow, the registry does not contain the id right afterwards.
C3_TeardownReleases ==
    [][\A s \in Sessions :
          (sess[s].st = "running" /\ sess'[s].st = "stopped")
              => SessId(sess, s) \notin processing_tracks'
      ]_vars

\* a session ended by a failure, another (or the same kind of) session ended
\* normally, and neither id is held
C3_Witness ==
    /\ \E s \in Sessions : sess[s].st = "stopped" /\ sess[s].exc # "none" /\ ~Held(s)
    /\ \E s \in Sessions : sess[s].st = "stopped" /\ sess[s].exc = "none" /\ ~Held(s)
\* ---- what a session has received and produced
IsFinalText(e) == e.type = "FINAL_TRANSCRIPT" /\ HasText(e)

\* the events whose handling is over (the last one may still be in its send)
Handled(s) ==
    IF sess[s].ev = "sending" THEN SubSeq(sess[s].evlog, 1, Len(sess[s].evlog) - 1)
    ELSE sess[s].evlog

FinalsHandled(s) == { k \in 1..Len(Handled(s)) : IsFinalText(Handled(s)[k]) }
FinalMsgs(s) == { i \in 1..Len(sess[s].out) :
                    sess[s].out[i].kind = "msg" /\ sess[s].out[i].isFinal }
Recs(s) == { i \in 1..Len(sess[s].out) : sess[s].out[i].kind = "rec" }

RECURSIVE Sum(_, _)
Sum(f, D) == IF D = {} THEN 0
             ELSE LET x == CHOOSE y \in D : TRUE IN f[x] + Sum(f, D \ {x})

\* C4: every final transcript with text that a session has handled gave
\* exactly one final message and exactly one record, the message first.
C4_FinalSentThenSaved ==
    \A s \in Sessions :
        /\ Cardinality(FinalMsgs(s)) = Cardinality(FinalsHandled(s))
        /\ Cardinality(Recs(s)) = Cardinality(FinalsHandled(s))
        /\ \A i \in Recs(s) :
              /\ i > 1
              /\ (i - 1) \in FinalMsgs(s)
              /\ sess[s].out[i - 1].text = sess[s].out[i].text

\* C5: no append is lost: the file holds the records it had before the run
\* and exactly one more for each record a session has saved, whatever the
\* interleaving of the sessions.
StoredRecords == IF file.kind = "list" THEN file.recs ELSE <<>>
Earlier == { i \in 1..Len(StoredRecords) : StoredRecords[i] = EarlierRecord }
TotalSaved == Sum([s \in Sessions |-> Cardinality(Recs(s))], Sessions)

C5_NoLostAppend ==
    /\ Cardinality(Earlier) <= 1
    /\ Len(StoredRecords) = Cardinality(Earlier) + TotalSaved

\* two sessions running at the same time have each saved a record
C5_Witness ==
    \E s, u \in Sessions :
        /\ s # u /\ Running(s) /\ Running(u)
        /\ Recs(s) # {} /\ Recs(u) # {}
        /\ Earlier # {}
        /\ Len(StoredRecords) = 3

\* C6: with the audio tracks T subscribed when the agent connects, and no
\* flow of any session ever ending, all of T is eventually held, one running
\* session each.
FlowsNeverEnd ==
    \A s \in Sessions : /\ sess[s].ev \in {"idle", "waiting", "sending"}
                        /\ sess[s].push \in {"idle", "waiting"}

AllDiscovered(T) ==
    \A tr \in T : Kind(tr) = "KIND_AUDIO" =>
        /\ track_id(Owner(tr), tr) \in processing_tracks
        /\ \E s \in Sessions : Running(s) /\ sess[s].track = tr

C6_DiscoveryStartsAll ==
    \A T \in SUBSET Tracks :
        [](subscribed = T /\ FlowsNeverEnd) => <>AllDiscovered(T)

\* C7: when a session has ended, none of its two flows is still running.
C7_JoinedNotRaced ==
    \A s \in Sessions : sess[s].st = "stopped" => ~FlowsLive(s)

\* C8: a failed heartbeat publish does not end the emitter.
C8_HeartbeatSurvives == hb.pc # "dead"

\* C9: a failed publish of a transcript message does not end the session:
\* no session's gather is ever handed the send failure.
C9_SendFailureDropped ==
    \A s \in Sessions : sess[s].exc # "send"

\* C10: when on_track_unsubscribed has handled an audio track, the registry
\* does not contain the track's id, whatever its session is doing.
C10_UnsubscribeReleases ==
    [][\A tr \in Tracks :
          (Registered /\ Kind(tr) = "KIND_AUDIO"
             /\ tr \in subscribed /\ tr \notin subscribed')
              => track_id(Owner(tr), tr) \notin processing_tracks'
      ]_vars

\* the only session of an unsubscribed track is still running, in the
\* middle of a send, and its id is no longer held
C10_Witness ==
    \E s \in Sessions :
        /\ Running(s) /\ sess[s].ev = "sending"
        /\ sess[s].track \notin subscribed
        /\ ~Held(s)
        /\ \A u \in Sessions \ {s} : sess[u].track # sess[s].track
\* C11: a speech event whose text is empty or whitespace-only, interim or
\* final, gives no message and no record: handling it in any state a session
\* can be in changes neither what the session has produced nor the file, and
\* starts no send; and nothing produced or stored ever carries such a text.
AllSpaces(t) == \A i \in 1..Len(t) : IsSpace(t[i])

BlankTexts == { <<>>, <<" ", "\t">>, <<"\f", " ">> }

BlankEvents ==
    [type : {"INTERIM_TRANSCRIPT", "FINAL_TRANSCRIPT"},
     alternatives : { <<[text |-> t]>> : t \in BlankTexts }]

C11_BlankTextDropped ==
    /\ \A s \in Sessions : \A i \in 1..Len(sess[s].out) :
          ~AllSpaces(sess[s].out[i].text)
    /\ \A i \in 1..Len(StoredRecords) : ~AllSpaces(StoredRecords[i].text)
    /\ \A s \in Sessions : sess[s].ev = "waiting" =>
          \A e \in BlankEvents :
              LET r == on_event(sess[s], file, e) IN
              /\ r.sr.out = sess[s].out
              /\ r.sr.ev = "waiting"
              /\ r.file = file

\* a session has received a blank interim and a blank final transcript and
\* has produced nothing, and the file is as it was
C11_Witness ==
    \E s \in Sessions :
        /\ \E k \in 1..Len(sess[s].evlog) :
              /\ sess[s].evlog[k].type = "INTERIM_TRANSCRIPT"
              /\ sess[s].evlog[k].alternatives # <<>>
              /\ AllSpaces(sess[s].evlog[k].alternatives[1].text)
        /\ \E k \in 1..Len(sess[s].evlog) :
              /\ sess[s].evlog[k].type = "FINAL_TRANSCRIPT"
              /\ sess[s].evlog[k].alternatives # <<>>
              /\ AllSpaces(sess[s].evlog[k].alternatives[1].text)
        /\ sess[s].ev = "waiting"
        /\ sess[s].out = <<>>
        /\ file \in InitialFiles
\* C12: a failure of a session's speech engine or audio source stays in the
\* session.  The step in which the stream raises changes nothing but that
\* flow; the step in which the session then ends leaves every other session
\* as it was, ends in "stopped" (the exception is caught), and removes no id
\* from the registry but the session's own (for a session in a task of its
\* own the registry changes by exactly that).
PipelineFailure(s) == sess[s].exc \in {"engine", "audio"}

C12_FailureContained ==
    [][\A s \in Sessions :
          /\ (\/ sess[s].ev = "waiting" /\ sess'[s].ev = "raised"
              \/ sess[s].push = "waiting" /\ sess'[s].push = "raised")
                => /\ processing_tracks' = processing_tracks
                   /\ \A u \in Sessions \ {s} : sess'[u] = sess[u]
                   /\ sess'[s].st = sess[s].st
                   /\ main' = main /\ joins' = joins /\ hb' = hb /\ file' = file
          /\ (Running(s) /\ PipelineFailure(s) /\ sess'[s].st # "running")
                => /\ sess'[s].st = "stopped"
                   /\ \A u \in Sessions \ {s} :
                         sess[u].st # "free" => sess'[u] = sess[u]
                   /\ processing_tracks \ processing_tracks' \subseteq {SessId(sess, s)}
                   /\ sess[s].host = "task" =>
                         processing_tracks' = processing_tracks \ {SessId(sess, s)}
      ]_vars

\* a session ended by a failure of its engine or audio source while the
\* session of another track goes on, its id held
C12_Witness ==
    \E s, u \in Sessions :
        /\ sess[s].st = "stopped" /\ PipelineFailure(s)
        /\ Running(u) /\ sess[u].track # sess[s].track
        /\ sess[u].ev = "waiting" /\ sess[u].push = "waiting"
        /\ Held(u) /\ ~Held(s)
\* C13: an existing file whose content is not a list of records counts as
\* empty: the save of a final transcript on such a file does not raise into
\* the session and leaves the file holding exactly the new record.
SaveStep(s) ==
    /\ sess[s].ev = "sending"
    /\ IsFinalText(Last(sess[s].evlog))
    /\ Len(sess'[s].out) > Len(sess[s].out)     \* the publish went through

C13_MalformedFileIsEmpty ==
    [][\A s \in Sessions :
          (SaveStep(s) /\ file.kind \in {"corrupt", "other"})
              => /\ sess'[s].ev = "waiting"
                 /\ file'.kind = "list"
                 /\ Len(file'.recs) = 1
                 /\ file'.recs[1].text = EventText(Last(sess[s].evlog))
      ]_vars
\* C14: a session's messages go out in the order of its events: the
\* messages published so far are, one for one and in order, those of the
\* first events with text that the session received.
IsMsg(x) == x.kind = "msg"
Msgs(s) == SelectSeq(sess[s].out, IsMsg)
WithText(s) == SelectSeq(sess[s].evlog, CallsSend)

C14_MessagesInEventOrder ==
    \A s \in Sessions :
        LET msgs == Msgs(s)
            events == WithText(s)
        IN  /\ Len(msgs) <= Len(events)
            /\ \A i \in 1..Len(msgs) :
                  /\ msgs[i].text = EventText(events[i])
                  /\ msgs[i].isFinal = (events[i].type = "FINAL_TRANSCRIPT")

\* an interim and then a final transcript were received and both messages
\* are out, the interim one first
C14_Witness ==
    \E s \in Sessions :
        /\ Len(Msgs(s)) >= 2
        /\ ~Msgs(s)[1].isFinal /\ Msgs(s)[2].isFinal
        /\ Len(WithText(s)) >= 2
        /\ WithText(s)[1].type = "INTERIM_TRANSCRIPT"
\* C15: the heartbeat fires whatever the sessions do: also when no flow of
\* any session ever ends (and the run is not cut short by the bound on the
\* environment), a tick comes.
C15_HeartbeatIndependent ==
    [](FlowsNeverEnd /\ env < MaxEnv) => <>(hb.ticks > 0)
\* C16: the size of the registry is the number of track ids acquired and
\* not yet released.  In every state the registry holds ids of audio tracks
\* only, one per track, so its size is the number of tracks whose id is held;
\* in every step the registry changes by exactly the ids released in the step
\* (sessions that end, audio tracks unsubscribed) and the ids acquired in it;
\* and an unsubscribe notification for a held track takes the size down by
\* one: from 2 to 1 when the tracks of both participants were held.
AudioTracks == { tr \in Tracks : Kind(tr) = "KIND_AUDIO" }

HeldTracks == { tr \in AudioTracks : track_id(Owner(tr), tr) \in processing_tracks }

ReleasedNow ==
    { SessId(sess, s) : s \in { v \in Sessions :
          sess[v].st = "running" /\ sess'[v].st = "stopped" } }
    \cup { track_id(Owner(tr), tr) : tr \in { t \in AudioTracks :
          Registered /\ t \in subscribed /\ t \notin subscribed' } }

AcquiredNow ==
    { SessId(sess', s) : s \in { v \in Sessions :
          Attempts(v) /\ sess'[v].st = "running" } }

C16_SizeCountsHeldIds ==
    /\ [](/\ processing_tracks = { track_id(Owner(tr), tr) : tr \in HeldTracks }
          /\ Cardinality(processing_tracks) = Cardinality(HeldTracks))
    /\ [][/\ processing_tracks' = (processing_tracks \ ReleasedNow) \cup AcquiredNow
          /\ \A tr \in HeldTracks :
                (Registered /\ tr \in subscribed /\ tr \notin subscribed')
                    => Cardinality(processing_tracks')
                          = Cardinality(processing_tracks) - 1
      ]_vars

\* the sessions of the audio tracks of both participants are running, one
\* track has been unsubscribed and its id released, the other id is held:
\* the size is 1
C16_Witness ==
    \E s, u \in Sessions :
        /\ Running(s) /\ Running(u)
        /\ Owner(sess[s].track) # Owner(sess[u].track)
        /\ sess[s].track \notin subscribed /\ ~Held(s)
        /\ sess[u].track \in subscribed /\ Held(u)
        /\ Cardinality(processing_tracks) = 1
\* C17: records are written for final transcripts only.  In every state a
\* session has appended at most as many records as it has received final
\* transcripts with text, every record it appended and every record in the
\* file (but the one of the earlier run) carries the text of such an event
\* and the identity of the participant of its track; and a step changes the
\* file only while a session is handling a final transcript with text.
FinalsReceived(s) == { k \in 1..Len(sess[s].evlog) : IsFinalText(sess[s].evlog[k]) }

OfFinal(s, text, participant) ==
    /\ participant = Identity(Owner(sess[s].track))
    /\ \E k \in FinalsReceived(s) : EventText(sess[s].evlog[k]) = text

C17_RecordsOnlyForFinals ==
    /\ [](/\ \A s \in Sessions :
                /\ Cardinality(Recs(s)) <= Cardinality(FinalsReceived(s))
                /\ \A i \in Recs(s) :
                      OfFinal(s, sess[s].out[i].text, sess[s].out[i].participant)
          /\ \A i \in 1..Len(StoredRecords) :
                \/ StoredRecords[i] = EarlierRecord
                \/ \E s \in Sessions :
                      /\ sess[s].st # "free"
                      /\ OfFinal(s, StoredRecords[i].text, StoredRecords[i].participant))
    /\ [][file' # file =>
             \E s \in Sessions :
                 /\ sess'[s] # sess[s]
                 /\ sess'[s].evlog # <<>>
                 /\ IsFinalText(Last(sess'[s].evlog))
                 /\ \A u \in Sessions \ {s} : sess'[u] = sess[u]
      ]_vars

\* a session has handled an interim transcript with text, a final one and an
\* end of speech, and has appended one record
C17_Witness ==
    \E s \in Sessions :
        /\ sess[s].ev = "waiting"
        /\ \E k \in 1..Len(sess[s].evlog) :
              sess[s].evlog[k].type = "INTERIM_TRANSCRIPT" /\ HasText(sess[s].evlog[k])
        /\ \E k \in 1..Len(sess[s].evlog) : sess[s].evlog[k].type = "END_OF_SPEECH"
        /\ Cardinality(FinalsReceived(s)) = 1
        /\ Cardinality(Recs(s)) = 1
        /\ Len(StoredRecords) = Cardinality(Earlier) + 1
\* C18: one message per speech event with text, none for an end of speech.
\* For every session that is not in the middle of a send, the messages it
\* sent with isFinal false are as many as the interim transcripts with text
\* it took from the engine, those with isFinal true as many as the final
\* ones, and every message carries the identity of the track's participant.
TextEvents(s, type) ==
    { k \in 1..Len(sess[s].evlog) :
        sess[s].evlog[k].type = type /\ HasText(sess[s].evlog[k]) }

MsgsOf(s, is_final) ==
    { i \in 1..Len(sess[s].out) :
        sess[s].out[i].kind = "msg" /\ sess[s].out[i].isFinal = is_final }

C18_OneMessagePerEvent ==
    \A s \in Sessions :
        sess[s].ev # "sending" =>
            /\ Cardinality(MsgsOf(s, FALSE))
                  = Cardinality(TextEvents(s, "INTERIM_TRANSCRIPT"))
            /\ Cardinality(MsgsOf(s, TRUE))
                  = Cardinality(TextEvents(s, "FINAL_TRANSCRIPT"))
            /\ \A i \in 1..Len(sess[s].out) :
                  sess[s].out[i].participant = Identity(Owner(sess[s].track))
\* C19: release is idempotent.  In every state, for every session and every
\* track, releasing an id the registry does not hold gives the registry back
\* unchanged and releasing twice gives what releasing once gives; and in
\* every step, a session that ends while its id is not held ends like any
\* other (stopped, no new failure) and takes nothing out of the registry, and
\* an unsubscribe notification for a track whose id is not held leaves the
\* registry as it is.
C19_ReleaseIdempotent ==
    /\ [](/\ \A s \in Sessions : sess[s].st # "free" =>
                LET once == release_on_exit(processing_tracks, sess[s]) IN
                /\ release_on_exit(once, sess[s]) = once
                /\ ~Held(s) => once = processing_tracks
          /\ \A tr \in Tracks :
                LET once == on_track_unsubscribed(processing_tracks, tr) IN
                /\ on_track_unsubscribed(once, tr) = once
                /\ track_id(Owner(tr), tr) \notin processing_tracks
                      => once = processing_tracks)
    /\ [][/\ \A s \in Sessions :
                (sess[s].st = "running" /\ sess'[s].st = "stopped" /\ ~Held(s))
                    => /\ processing_tracks' = processing_tracks \cup AcquiredNow
                       /\ sess'[s].exc = sess[s].exc
          /\ \A tr \in AudioTracks :
                (Registered /\ tr \in subscribed /\ tr \notin subscribed'
                   /\ tr \notin HeldTracks)
                    => processing_tracks' = processing_tracks
      ]_vars

\* the only session of a track has ended, the track was unsubscribed while
\* the callbacks were registered, and the id is not held: the second of the
\* two releases found the id absent
C19_Witness ==
    \E s \in Sessions :
        /\ sess[s].st = "stopped" /\ sess[s].host = "task"
        /\ sess[s].exc = "none"
        /\ sess[s].track \notin subscribed
        /\ ~Held(s)
        /\ \A u \in Sessions \ {s} : sess[u].track # sess[s].track
\* C20: the store is append-only.  Every step that changes a file holding a
\* list of records leaves a list that is the old one, record for record and
\* in the same order, with one record more at the end, and that record is
\* the one of the final transcript the session of this step has just handled.
C20_AppendOnly ==
    [][(file.kind = "list" /\ file' # file) =>
          /\ file'.kind = "list"
          /\ Len(file'.recs) = Len(file.recs) + 1
          /\ SubSeq(file'.recs, 1, Len(file.recs)) = file.recs
          /\ \E s \in Sessions :
                /\ sess'[s] # sess[s]
                /\ sess'[s].evlog # <<>>
                /\ Last(file'.recs) =
                      [participant |-> Identity(Owner(sess'[s].track)),
                       text |-> EventText(Last(sess'[s].evlog)),
                       room |-> RoomName]
      ]_vars

\* one session has appended two records, one after the other, behind the
\* record the file held before
C20_Witness ==
    /\ file.kind = "list" /\ Len(file.recs) = 3
    /\ file.recs[1] = EarlierRecord
    /\ \E s \in Sessions :
          /\ Cardinality(Recs(s)) = 2
          /\ file.recs[2].participant = Identity(Owner(sess[s].track))
          /\ file.recs[3].participant = Identity(Owner(sess[s].track))
\* C21: a session ends, and its id is released, once its audio is exhausted
\* and the engine has ended the event stream, or once the engine's event
\* stream has completed: whenever the event flow of a running session has
\* seen the end of the stream, the session is eventually stopped with its id
\* out of the registry (in runs the bound on the environment does not cut
\* short).
Terminated(s) == sess[s].st = "stopped" /\ ~Held(s)

C21_SessionEndsOnCompletion ==
    [](env < MaxEnv) =>
        \A s \in Sessions :
            (Running(s) /\ sess[s].ev = "done") ~> Terminated(s)
\* C22: the frame flow pushes every frame as it arrives and signals the end
\* of input once, after the last frame.  A step pushes at most one frame, and
\* only while the flow is in its loop and has not signalled the end; the end
\* is signalled in the step in which the audio stream is exhausted, once, and
\* not when the stream raises; afterwards the flow pushes nothing.
C22_FramesThenEndOfInput ==
    /\ [](\A s \in Sessions :
             /\ sess[s].endIn <= 1
             /\ sess[s].endIn = 1 <=> sess[s].push = "done")
    /\ [][\A s \in Sessions :
             /\ sess'[s].frames # sess[s].frames =>
                   /\ sess'[s].frames = sess[s].frames + 1
                   /\ sess[s].push = "waiting" /\ sess'[s].push = "waiting"
                   /\ sess[s].endIn = 0 /\ sess'[s].endIn = 0
             /\ sess'[s].endIn # sess[s].endIn =>
                   /\ sess[s].endIn = 0 /\ sess'[s].endIn = 1
                   /\ sess[s].push = "waiting" /\ sess'[s].push = "done"
                   /\ sess'[s].frames = sess[s].frames
             /\ sess'[s].push = "raised" => sess'[s].endIn = 0
      ]_vars

\* a flow has pushed two frames and then signalled the end of input
C22_Witness ==
    \E s \in Sessions :
        /\ sess[s].frames = 2
        /\ sess[s].endIn = 1
        /\ sess[s].push = "done"
\* C23: an unsubscribe does not interrupt the session of the track.  The
\* step of a track-unsubscribed notification changes no session and not the
\* file; a session ends only in a step before which both its flows were over
\* or one of them had raised; and a running session whose track is
\* unsubscribed and whose id is released handles the next event as any other
\* session does: an event with text starts a send.
Unsubscribes(tr) == tr \in subscribed /\ tr \notin subscribed'

C23_UnsubscribeDoesNotInterrupt ==
    /\ [](\A s \in Sessions :
             (Running(s) /\ sess[s].track \notin subscribed /\ ~Held(s)
                /\ sess[s].ev = "waiting")
                 => \A e \in EventSet :
                       CallsSend(e) => on_event(sess[s], file, e).sr.ev = "sending")
    /\ [][/\ (\E tr \in Tracks : Unsubscribes(tr)) => (sess' = sess /\ file' = file)
          /\ \A s \in Sessions :
                (sess[s].st = "running" /\ sess'[s].st # "running")
                    => /\ sess'[s].st = "stopped"
                       /\ \/ sess[s].ev = "done" /\ sess[s].push = "done"
                          \/ sess[s].exc # "none"
      ]_vars

\* a session whose track was unsubscribed, and whose id was released by the
\* handler, is running, has saved a record and waits for the next event
C23_Witness ==
    \E s \in Sessions :
        /\ Running(s) /\ sess[s].host = "task"
        /\ sess[s].ev = "waiting" /\ sess[s].push = "waiting"
        /\ sess[s].track \notin subscribed
        /\ ~Held(s)
        /\ Recs(s) # {}
\* C24: tracks that are not audio are ignored on every path.  No session,
\* running, pending or over, is ever one of such a track and the registry
\* never holds its id; the enumeration of a participant's publications
\* passes over it without starting anything; and the step of a subscribed or
\* unsubscribed notification for it changes nothing but the subscription:
\* not the registry, no session, no message, no record.
OtherTracks == Tracks \ AudioTracks

C24_NonAudioIgnored ==
    /\ [](/\ \A s \in Sessions : sess[s].st # "free" => sess[s].track \in AudioTracks
          /\ \A tr \in OtherTracks : track_id(Owner(tr), tr) \notin processing_tracks
          /\ \A tr \in OtherTracks : \A host \in {"main", Owner(tr)} :
                LET r == process_participant_tracks(<<tr>>, sess, processing_tracks, host)
                IN  r.ok /\ r.cur = 0 /\ r.sess = sess /\ r.reg = processing_tracks)
    /\ [][\A tr \in OtherTracks :
             (tr \in subscribed) # (tr \in subscribed')
                 => UNCHANGED <<processing_tracks, sess, hb, file, main, joins>>
      ]_vars

\* the callbacks are set, the video track is the only subscribed one, and
\* nothing was started
C24_Witness ==
    /\ Registered
    /\ subscribed = OtherTracks
    /\ processing_tracks = {}
    /\ \A s \in Sessions : sess[s].st = "free"
\* C25: the teardown of a session releases its own acquisition only.  In
\* every step in which a session ends while another session of the same
\* track is running and the id is held, the id is held afterwards.
C25_TeardownReleasesOwnOnly ==
    [][\A s, u \in Sessions :
          (/\ s # u
           /\ sess[s].st = "running" /\ sess'[s].st = "stopped"
           /\ sess[u].st = "running" /\ sess'[u].st = "running"
           /\ sess[u].track = sess[s].track
           /\ Held(u))
              => SessId(sess, u) \in processing_tracks'
      ]_vars
\* C26: a session that has ended is silent.  In every step, a session that
\* is stopped pushes no frame, publishes no message and saves no record.
C26_TerminatedIsSilent ==
    [][\A s \in Sessions :
          sess[s].st = "stopped" =>
              /\ sess'[s].frames = sess[s].frames
              /\ sess'[s].out = sess[s].out
              /\ sess'[s].ev # "sending"
      ]_vars
\* C27: once the agent has connected, the notifications of the room are
\* handled.  In every step after the connect, a track-subscribed notification
\* for an audio track whose id is not held creates the task that runs its
\* session, and a track-unsubscribed notification for an audio track leaves
\* its id out of the registry.
C27_NotificationsHandled ==
    [][\A tr \in AudioTracks :
          main.pc # "connect" =>
              /\ (tr \notin subscribed /\ tr \in subscribed'
                    /\ track_id(Owner(tr), tr) \notin processing_tracks)
                  => \E s \in Sessions :
                        /\ sess[s].st = "free"
                        /\ sess'[s].st = "pending" /\ sess'[s].track = tr
              /\ (tr \in subscribed /\ tr \notin subscribed')
                  => track_id(Owner(tr), tr) \notin processing_tracks'
      ]_vars
\* C28: the TABLES section.  When the schema is generated from the parsed
\* tables, the section names the users table first, if one was parsed, and
\* then the other tables in the order of their names, and every parsed table
\* is in the section exactly once, with its definition.
C28_TablesSection ==
    [][(mig.pc = "parse" /\ mig'.pc = "generated") =>
          LET parsed == mig.tables
              section == mig'.section
              names == [i \in 1..Len(section) |-> section[i].name]
          IN  /\ names = (IF "users" \in DOMAIN parsed THEN <<"users">> ELSE <<>>)
                            \o sorted((DOMAIN parsed) \ {"users"})
              /\ \A n \in DOMAIN parsed :
                    Cardinality({ i \in 1..Len(section) :
                        section[i].name = n /\ section[i].def = parsed[n] }) = 1
      ]_vars
====
